---- MODULE Spec2Model ----
(***************************************************************************)
(* FastaFrames: the FASTA header parser (fasta_to_entries and its helpers) *)
(* and the serializer (FastaEntry.serialize, entries_to_fasta).            *)
(*                                                                         *)
(* A Python str is a sequence of one-character strings.  A Python value    *)
(* that may be None, a str or a number is a record [k, s, n] (see None,    *)
(* Str, Num).  A FastaEntry is a record of ten such values.                *)
(***************************************************************************)
EXTENDS Integers, Sequences, FiniteSets, TLC

VARIABLES
    data,           \* the argument of fasta_to_entries
    lines,          \* the generator's local: the lines get_lines(data) gives
    skip_error,     \* the argument skip_error of fasta_to_entries
    pos,            \* how many lines the for loop has taken from get_lines(data)
    current_entry,  \* the generator's local: 0 is None, else an object id in heap
    heap,           \* the FastaEntry objects created so far, by object id
    yielded,        \* the object ids the consumer has received, in order
    warnings,       \* the first elements warnings.warn has been called with
    pc,             \* where the generator (or the caller) stands
    entries,        \* the argument of entries_to_fasta
    fasta_str,      \* the argument of a direct call of _fasta_str_to_entry
    ret,            \* what that call returned
    exception,      \* the exception that left the call or the generator, or "none"
    values,         \* the argument of convert_to_best_datatype
    converted,      \* what the successive calls of convert_to_best_datatype returned
    fasta_df,       \* the table entries_to_df returned, by column name
    output          \* the StringIO to_fasta returned for the table

vars == <<data, lines, skip_error, pos, current_entry, heap, yielded, warnings, pc,
          entries, fasta_str, ret, exception, values, converted, fasta_df, output>>

----------------------------------------------------------------------------
(* Python values *)

None == [k |-> "none", s |-> <<>>, n |-> 0]
Str(s) == [k |-> "str", s |-> s, n |-> 0]
Num(n) == [k |-> "int", s |-> <<>>, n |-> n]

\* a float, held in tenths: Float(25) is 2.5
Float(tenths) == [k |-> "float", s |-> <<>>, n |-> tenths]

\* bool(value), as in `if value`
Truthy(v) ==
    CASE v.k = "none" -> FALSE
      [] v.k = "str" -> v.s # <<>>
      [] OTHER -> v.n # 0

Digits == <<"0", "1", "2", "3", "4", "5", "6", "7", "8", "9">>

RECURSIVE NatToStr(_)
NatToStr(n) ==
    IF n < 10 THEN <<Digits[n + 1]>>
    ELSE NatToStr(n \div 10) \o <<Digits[(n % 10) + 1]>>

\* f"{value}"
Format(v) ==
    CASE v.k = "none" -> <<"N", "o", "n", "e">>
      [] v.k = "str" -> v.s
      [] v.k = "float" ->
             LET abs == IF v.n < 0 THEN -v.n ELSE v.n
             IN  (IF v.n < 0 THEN <<"-">> ELSE <<>>)
                     \o NatToStr(abs \div 10) \o <<".">> \o NatToStr(abs % 10)
      [] OTHER -> IF v.n < 0 THEN <<"-">> \o NatToStr(-v.n) ELSE NatToStr(v.n)

----------------------------------------------------------------------------
(* str methods *)

Range(s) == {s[i] : i \in DOMAIN s}

\* the characters str.strip() and str.rstrip() remove
Whitespace == {" ", "\t", "\n", "\r"}

RECURSIVE rstrip(_)
rstrip(s) ==
    IF s # <<>> /\ s[Len(s)] \in Whitespace
    THEN rstrip(SubSeq(s, 1, Len(s) - 1))
    ELSE s

RECURSIVE lstrip(_)
lstrip(s) ==
    IF s # <<>> /\ s[1] \in Whitespace THEN lstrip(Tail(s)) ELSE s

strip(s) == lstrip(rstrip(s))

\* s.rstrip('\n')
RECURSIVE rstrip_newline(_)
rstrip_newline(s) ==
    IF s # <<>> /\ s[Len(s)] = "\n"
    THEN rstrip_newline(SubSeq(s, 1, Len(s) - 1))
    ELSE s

\* s.replace(c, "")
RECURSIVE remove_all(_, _)
remove_all(s, c) ==
    IF s = <<>> THEN <<>>
    ELSE IF Head(s) = c THEN remove_all(Tail(s), c)
    ELSE <<Head(s)>> \o remove_all(Tail(s), c)

\* s.split(c): "" gives [""], and n separators give n + 1 parts
RECURSIVE split_acc(_, _, _)
split_acc(s, c, cur) ==
    IF s = <<>> THEN <<cur>>
    ELSE IF Head(s) = c THEN <<cur>> \o split_acc(Tail(s), c, <<>>)
    ELSE split_acc(Tail(s), c, Append(cur, Head(s)))

split(s, c) == split_acc(s, c, <<>>)

\* sep.join(parts)
RECURSIVE join(_, _)
join(sep, parts) ==
    IF parts = <<>> THEN <<>>
    ELSE IF Len(parts) = 1 THEN parts[1]
    ELSE parts[1] \o sep \o join(sep, Tail(parts))

startswith(s, c) == s # <<>> /\ s[1] = c

\* s[:n] and s[n:]
SliceTo(s, n) == SubSeq(s, 1, IF n < Len(s) THEN n ELSE Len(s))
SliceFrom(s, n) == SubSeq(s, n + 1, Len(s))

RECURSIVE concat(_)
concat(parts) == IF parts = <<>> THEN <<>> ELSE Head(parts) \o concat(Tail(parts))

----------------------------------------------------------------------------
(* FastaFields, FastaEntry *)

PN == <<"P", "N">>
OS == <<"O", "S">>
OX == <<"O", "X">>
GN == <<"G", "N">>
PE == <<"P", "E">>
SV == <<"S", "V">>

FastaFields == {PN, OS, OX, GN, PE, SV}

FastaEntry(db, unique_identifier, entry_name, protein_name, organism_name, organism_identifier, gene_name, protein_existence, sequence_version) ==
    [db |-> db,
     unique_identifier |-> unique_identifier,
     entry_name |-> entry_name,
     protein_name |-> protein_name,
     organism_name |-> organism_name,
     organism_identifier |-> organism_identifier,
     gene_name |-> gene_name,
     protein_existence |-> protein_existence,
     sequence_version |-> sequence_version,
     protein_sequence |-> Str(<<>>)]

----------------------------------------------------------------------------
(* The header parser *)

_extract_fasta_header_elements(entry_str) ==
    split(remove_all(rstrip(entry_str), ">"), " ")

\* _extract_initial_info keeping, as its warning says, "only the first part"
_extract_initial_info_FirstPart(line_elements) ==
    LET first_element_parts == split(line_elements[1], "|")
    IN  IF Len(first_element_parts) = 3
        THEN [raised |-> FALSE, warned |-> FALSE,
              db |-> Str(first_element_parts[1]),
              unique_identifier |-> Str(first_element_parts[2]),
              entry_name |-> Str(first_element_parts[3])]
        ELSE [raised |-> FALSE, warned |-> TRUE,
              db |-> None,
              unique_identifier |-> Str(first_element_parts[1]),
              entry_name |-> None]

\* Returns the triple, whether warnings.warn was called, and whether the
\* function raised ValueError instead of returning.
_extract_initial_info(line_elements) ==
    LET first_element_parts == split(line_elements[1], "|")
    IN  IF Len(first_element_parts) = 3
        THEN [raised |-> FALSE, warned |-> FALSE,
              db |-> Str(first_element_parts[1]),
              unique_identifier |-> Str(first_element_parts[2]),
              entry_name |-> Str(first_element_parts[3])]
        ELSE IF Len(first_element_parts) >= 1
        THEN [raised |-> FALSE, warned |-> TRUE,
              db |-> None,
              unique_identifier |-> Str(line_elements[1]),
              entry_name |-> None]
        ELSE [raised |-> TRUE, warned |-> FALSE,
              db |-> None, unique_identifier |-> None, entry_name |-> None]

\* setdefault_append with `info[key] = [elem]`: the last element only
setdefault_append_Overwrite(info, key, elem) ==
    IF key \in DOMAIN info
    THEN [info EXCEPT ![key] = <<elem>>]
    ELSE info @@ (key :> <<elem>>)

\* info.setdefault(key, []).append(elem); a dict is a function on its keys
setdefault_append(info, key, elem) ==
    IF key \in DOMAIN info
    THEN [info EXCEPT ![key] = Append(@, elem)]
    ELSE info @@ (key :> <<elem>>)

\* One pass of the for loop of _process_line_elements over elem: the new
\* current_state, the element as collected, and whether the pass raises.
process_element(current_state, elem) ==
    LET tagged == "=" \in Range(elem)
        state == IF tagged THEN SliceTo(elem, 2) ELSE current_state
    IN  [current_state |-> state,
         elem |-> IF tagged THEN SliceFrom(elem, 3) ELSE elem,
         raised |-> state \notin FastaFields]

RECURSIVE process_loop(_, _, _)
process_loop(elems, current_state, info) ==
    IF elems = <<>> THEN [raised |-> FALSE, info |-> info]
    ELSE LET step == process_element(current_state, Head(elems))
         IN  IF step.raised THEN [raised |-> TRUE, info |-> info]
             ELSE process_loop(Tail(elems), step.current_state,
                               setdefault_append(info, step.current_state, step.elem))

_process_line_elements(line_elements) ==
    process_loop(Tail(line_elements), PN, <<>>)

_join_list_values(d) ==
    [key \in DOMAIN d |-> IF d[key] # <<>> THEN Str(join(<<" ">>, d[key])) ELSE None]

\* dict.get(key)
get(d, key) == IF key \in DOMAIN d THEN d[key] ELSE None

\* Returns the entry, or raised = TRUE for a ValueError; warned tells whether
\* warnings.warn was called before either.
_fasta_str_to_entry(str) ==
    LET line_elements == _extract_fasta_header_elements(str)
        initial == _extract_initial_info(line_elements)
        info == _process_line_elements(line_elements)
        joined_info == _join_list_values(info.info)
    IN  IF initial.raised
        THEN [raised |-> TRUE, warned |-> FALSE, entry |-> None]
        ELSE IF info.raised
        THEN [raised |-> TRUE, warned |-> initial.warned, entry |-> None]
        ELSE [raised |-> FALSE, warned |-> initial.warned,
              entry |-> FastaEntry(initial.db, initial.unique_identifier,
                                   initial.entry_name,
                                   get(joined_info, PN), get(joined_info, OS),
                                   get(joined_info, OX), get(joined_info, GN),
                                   get(joined_info, PE), get(joined_info, SV))]

----------------------------------------------------------------------------
(* util.get_lines *)

\* the lines a text stream gives when iterated: each keeps its line break
RECURSIVE readlines_acc(_, _)
readlines_acc(s, cur) ==
    IF s = <<>> THEN (IF cur = <<>> THEN <<>> ELSE <<cur>>)
    ELSE IF Head(s) = "\n" THEN <<Append(cur, "\n")>> \o readlines_acc(Tail(s), <<>>)
    ELSE readlines_acc(Tail(s), Append(cur, Head(s)))

readlines(s) == readlines_acc(s, <<>>)

read_lines_from_text_io(text) ==
    LET ls == readlines(text) IN [i \in DOMAIN ls |-> rstrip_newline(ls[i])]

read_lines_from_string(s) ==
    LET ls == split(s, "\n") IN [i \in DOMAIN ls |-> rstrip_newline(ls[i])]

\* open(file_path, mode='r') and `for line in file`; the texts modelled hold
\* no '\r', so the newline translation of text mode leaves them as they are
read_lines_from_file(text) ==
    LET ls == readlines(text) IN [i \in DOMAIN ls |-> rstrip_newline(ls[i])]

\* A byte is named by its two hex digits; bytes.decode('UTF-8') and
\* str.encode(), on the ASCII characters the inputs are made of
Ascii ==
    ("A" :> "41") @@ (">" :> "3e") @@ ("|" :> "7c") @@ (" " :> "20") @@ ("\n" :> "0a")

chr(byte) == CHOOSE c \in DOMAIN Ascii : Ascii[c] = byte

decode(bytes) == [i \in DOMAIN bytes |-> chr(bytes[i])]

encode(s) == [i \in DOMAIN s |-> Ascii[s[i]]]

\* The input forms: a str that names no existing file ("str"), a str that
\* names a file holding text ("path"), that file opened for reading
\* ("TextIOWrapper"), a StringIO ("StringIO"), an iterable of str chunks
\* ("chunks"), an iterable of bytes chunks ("byte_chunks"); and, of other
\* types, a bytes object ("bytes", iterated byte by byte) and the objects
\* that are not iterable ("int", "NoneType", "PosixPath").
StrInput(text) == [form |-> "str", text |-> text, chunks |-> <<>>]
PathInput(text) == [form |-> "path", text |-> text, chunks |-> <<>>]
TextIOWrapper(text) == [form |-> "TextIOWrapper", text |-> text, chunks |-> <<>>]
StringIO(text) == [form |-> "StringIO", text |-> text, chunks |-> <<>>]
Chunks(chunks) == [form |-> "chunks", text |-> <<>>, chunks |-> chunks]
ByteChunks(chunks) == [form |-> "byte_chunks", text |-> <<>>, chunks |-> chunks]
Bytes(bytes) == [form |-> "bytes", text |-> <<>>, chunks |-> bytes]
NotIterable(type) == [form |-> type, text |-> <<>>, chunks |-> <<>>]

\* the lines get_lines yields (before it raises, if it does)
get_lines(file_input) ==
    CASE file_input.form = "str" -> read_lines_from_string(file_input.text)
      [] file_input.form = "path" -> read_lines_from_file(file_input.text)
      [] file_input.form \in {"TextIOWrapper", "StringIO"} ->
             read_lines_from_text_io(file_input.text)
      [] file_input.form = "chunks" ->
             [i \in DOMAIN file_input.chunks |-> rstrip_newline(file_input.chunks[i])]
      [] file_input.form = "byte_chunks" ->
             [i \in DOMAIN file_input.chunks |->
                 rstrip_newline(decode(file_input.chunks[i]))]
      [] OTHER -> <<>>

\* The exception that leaves get_lines, or "none": line 54 on an object that
\* is not iterable, line 58 on the first int a bytes object gives.
get_lines_raises(file_input) ==
    CASE file_input.form \in {"int", "NoneType", "PosixPath"} -> "TypeError"
      [] file_input.form = "bytes" /\ file_input.chunks # <<>> -> "AttributeError"
      [] OTHER -> "none"

----------------------------------------------------------------------------
(* util.convert_to_best_datatype *)

IsDigits(s) == s # <<>> /\ \A i \in DOMAIN s : s[i] \in Range(Digits)

DigitValue(c) == CHOOSE d \in 0..9 : Digits[d + 1] = c

RECURSIVE StrToNat(_)
StrToNat(s) ==
    IF s = <<>> THEN 0
    ELSE StrToNat(SubSeq(s, 1, Len(s) - 1)) * 10 + DigitValue(s[Len(s)])

\* a numeric literal without its sign, and the sign
Unsigned(s) == IF s # <<>> /\ s[1] \in {"+", "-"} THEN Tail(s) ELSE s
Sign(s) == IF s # <<>> /\ s[1] = "-" THEN -1 ELSE 1

\* int(value): the value, or the exception raised.  Of a str: whitespace
\* around, a sign, decimal digits.  Of a float: truncated toward zero.
int(value) ==
    CASE value.k = "none" -> [raised |-> "TypeError", value |-> None]
      [] value.k = "int" -> [raised |-> "none", value |-> value]
      [] value.k = "float" ->
             [raised |-> "none",
              value |-> Num(IF value.n < 0 THEN -((-value.n) \div 10) ELSE value.n \div 10)]
      [] OTHER ->
             LET literal == strip(value.s)
             IN  IF IsDigits(Unsigned(literal))
                 THEN [raised |-> "none",
                       value |-> Num(Sign(literal) * StrToNat(Unsigned(literal)))]
                 ELSE [raised |-> "ValueError", value |-> None]

\* float(value).  Of a str: whitespace around, a sign, digits, and at most
\* one digit after a point (the precision of Float).
float(value) ==
    CASE value.k = "none" -> [raised |-> "TypeError", value |-> None]
      [] value.k = "int" -> [raised |-> "none", value |-> Float(value.n * 10)]
      [] value.k = "float" -> [raised |-> "none", value |-> value]
      [] OTHER ->
             LET literal == strip(value.s)
                 parts == split(Unsigned(literal), ".")
             IN  IF Len(parts) = 1 /\ IsDigits(parts[1])
                 THEN [raised |-> "none",
                       value |-> Float(Sign(literal) * StrToNat(parts[1]) * 10)]
                 ELSE IF /\ Len(parts) = 2
                         /\ parts[1] \o parts[2] # <<>>
                         /\ Len(parts[2]) <= 1
                         /\ \A i \in 1..2 : parts[i] = <<>> \/ IsDigits(parts[i])
                 THEN [raised |-> "none",
                       value |-> Float(Sign(literal)
                                         * (StrToNat(parts[1]) * 10 + StrToNat(parts[2])))]
                 ELSE [raised |-> "ValueError", value |-> None]

\* str(value)
to_str(value) == [raised |-> "none", value |-> Str(Format(value))]

\* datatype(value), for datatype in [int, float, str]
Call(datatype, value) ==
    CASE datatype = "int" -> int(value)
      [] datatype = "float" -> float(value)
      [] OTHER -> to_str(value)

Converts(datatype, vals) ==
    \A i \in DOMAIN vals : Call(datatype, vals[i]).raised = "none"

\* str(value) never raises, so the loop always returns at str at the latest
best_datatype_for_list(vals) ==
    IF Converts("int", vals) THEN "int"
    ELSE IF Converts("float", vals) THEN "float"
    ELSE "str"

convert_to_best_datatype(vals) ==
    [i \in DOMAIN vals |-> Call(best_datatype_for_list(vals), vals[i]).value]

----------------------------------------------------------------------------
(* FastaEntry.serialize, entries_to_fasta *)

optional_fields(self) ==
    <<[key |-> <<" ">> \o PN \o <<"=">>, value |-> self.protein_name],
      [key |-> <<" ">> \o OS \o <<"=">>, value |-> self.organism_name],
      [key |-> <<" ">> \o OX \o <<"=">>, value |-> self.organism_identifier],
      [key |-> <<" ">> \o GN \o <<"=">>, value |-> self.gene_name],
      [key |-> <<" ">> \o PE \o <<"=">>, value |-> self.protein_existence],
      [key |-> <<" ">> \o SV \o <<"=">>, value |-> self.sequence_version]>>

serialize(self) ==
    LET fields == optional_fields(self)
        fasta_header ==
            <<">">> \o Format(self.db) \o <<"|">> \o Format(self.unique_identifier)
                \o <<"|">> \o Format(self.entry_name)
                \o concat([i \in DOMAIN fields |->
                             IF Truthy(fields[i].value)
                             THEN fields[i].key \o Format(fields[i].value)
                             ELSE <<>>])
    IN  fasta_header \o <<"\n">> \o Format(self.protein_sequence) \o <<"\n">>

\* with output_file = None: the StringIO returned, rewound
entries_to_fasta(es) == StringIO(concat([i \in DOMAIN es |-> serialize(es[i])]))

----------------------------------------------------------------------------
(* entries_to_df, df_to_entries, to_fasta.  A DataFrame is a function from  *)
(* its column names to the columns, each a list of values, one per row; the *)
(* DataFrame made of no rows has no columns.                                *)

COLS ==
    <<"db", "unique_identifier", "entry_name", "protein_name", "organism_name",
      "organism_identifier", "gene_name", "protein_existence", "sequence_version",
      "protein_sequence">>

\* pd.DataFrame([asdict(entry) for entry in entries])
DataFrame(rows) ==
    IF rows = <<>> THEN <<>>
    ELSE [col_name \in Range(COLS) |-> [i \in DOMAIN rows |-> rows[i][col_name]]]

entries_to_df(es) ==
    LET df == DataFrame(es)
    IN  [col_name \in DOMAIN df |-> convert_to_best_datatype(df[col_name])]

\* df[COLS] raises KeyError when a column is missing; else one FastaEntry
\* per row, made of the row's values
df_to_entries(df) ==
    IF \E col_name \in Range(COLS) : col_name \notin DOMAIN df
    THEN [raised |-> "KeyError", entries |-> <<>>]
    ELSE [raised |-> "none",
          entries |-> [i \in DOMAIN df["db"] |->
                          [col_name \in Range(COLS) |-> df[col_name][i]]]]

\* to_fasta(data) for a DataFrame, with output_file = None
to_fasta(df) ==
    LET es == df_to_entries(df)
    IN  IF es.raised # "none"
        THEN [raised |-> es.raised, fasta_string |-> StringIO(<<>>)]
        ELSE [raised |-> "none", fasta_string |-> entries_to_fasta(es.entries)]

----------------------------------------------------------------------------
(* fasta_to_entries, a generator: pc is "loop" while it runs the for loop,   *)
(* "yield_140" and "yield_155" while it is suspended at one of its yields,   *)
(* "done" after it returned and "raised" after a ValueError left it.         *)

\* the line the for loop takes next, stripped (line 133)
NextLine == strip(lines[pos + 1])

Taking == pc = "loop" /\ pos < Len(lines)

\* lines 135, 136: a blank line
BlankLine ==
    /\ Taking
    /\ NextLine = <<>>
    /\ pos' = pos + 1
    /\ UNCHANGED <<data, lines, skip_error, current_entry, heap, yielded, warnings, pc,
                   entries, fasta_str, ret,
                   exception, values, converted, fasta_df, output>>

\* lines 138 to 140: a header line while an entry is open: yield it
HeaderYield ==
    /\ Taking
    /\ startswith(NextLine, ">")
    /\ current_entry # 0
    /\ pos' = pos + 1
    /\ yielded' = Append(yielded, current_entry)
    /\ pc' = "yield_140"
    /\ UNCHANGED <<data, lines, skip_error, current_entry, heap, warnings,
                   entries, fasta_str, ret,
                   exception, values, converted, fasta_df, output>>

\* The generator is about to run lines 141 to 149 on a header line: resumed
\* after the yield of line 140, or at line 138 with no entry open.
AtHeader ==
    IF pc = "yield_140" THEN TRUE
    ELSE Taking /\ startswith(NextLine, ">") /\ current_entry = 0

HeaderPos == IF pc = "yield_140" THEN pos ELSE pos + 1

Parsed == _fasta_str_to_entry(strip(lines[HeaderPos]))

Warned ==
    IF Parsed.warned
    THEN Append(warnings, _extract_fasta_header_elements(strip(lines[HeaderPos]))[1])
    ELSE warnings

\* HeaderParse filling the object just yielded instead of making a new one
HeaderParse_ReuseObject ==
    /\ AtHeader
    /\ ~Parsed.raised
    /\ pos' = HeaderPos
    /\ IF pc = "yield_140"
       THEN /\ heap' = [heap EXCEPT ![current_entry] = Parsed.entry]
            /\ current_entry' = current_entry
       ELSE /\ heap' = Append(heap, Parsed.entry)
            /\ current_entry' = Len(heap) + 1
    /\ warnings' = Warned
    /\ pc' = "loop"
    /\ UNCHANGED <<data, lines, skip_error, yielded, entries, fasta_str, ret,
                   exception, values, converted, fasta_df, output>>

\* lines 141 to 144: the header parses, its entry becomes the open one
HeaderParse ==
    /\ AtHeader
    /\ ~Parsed.raised
    /\ pos' = HeaderPos
    /\ heap' = Append(heap, Parsed.entry)
    /\ current_entry' = Len(heap) + 1
    /\ warnings' = Warned
    /\ pc' = "loop"
    /\ UNCHANGED <<data, lines, skip_error, yielded, entries, fasta_str, ret,
                   exception, values, converted, fasta_df, output>>

\* HeaderSkip that goes on with the entry that was open before the header
HeaderSkip_KeepOpen ==
    /\ AtHeader
    /\ Parsed.raised
    /\ skip_error
    /\ pos' = HeaderPos
    /\ current_entry' = IF pc = "yield_140" THEN yielded[Len(yielded)] ELSE 0
    /\ warnings' = Warned
    /\ pc' = "loop"
    /\ UNCHANGED <<data, lines, skip_error, heap, yielded, entries, fasta_str, ret,
                   exception, values, converted, fasta_df, output>>

\* lines 145 to 148: ValueError with skip_error
HeaderSkip ==
    /\ AtHeader
    /\ Parsed.raised
    /\ skip_error
    /\ pos' = HeaderPos
    /\ current_entry' = 0
    /\ warnings' = Warned
    /\ pc' = "loop"
    /\ UNCHANGED <<data, lines, skip_error, heap, yielded, entries, fasta_str, ret,
                   exception, values, converted, fasta_df, output>>

\* HeaderRaise with `return` for `raise e`: the sequence ends silently
HeaderRaise_Return ==
    /\ AtHeader
    /\ Parsed.raised
    /\ ~skip_error
    /\ pos' = HeaderPos
    /\ current_entry' = 0
    /\ warnings' = Warned
    /\ pc' = "done"
    /\ UNCHANGED <<data, lines, skip_error, heap, yielded, entries, fasta_str, ret,
                   exception, values, converted, fasta_df, output>>

\* line 149: ValueError without skip_error leaves the generator
HeaderRaise ==
    /\ AtHeader
    /\ Parsed.raised
    /\ ~skip_error
    /\ pos' = HeaderPos
    /\ current_entry' = 0
    /\ warnings' = Warned
    /\ pc' = "raised"
    /\ exception' = "ValueError"
    /\ UNCHANGED <<data, lines, skip_error, heap, yielded, entries, fasta_str, ret,
                   values, converted, fasta_df, output>>

\* BodyLine with `=` for `+=`: the line replaces the sequence
BodyLine_Overwrite ==
    /\ Taking
    /\ NextLine # <<>>
    /\ ~startswith(NextLine, ">")
    /\ current_entry # 0
    /\ pos' = pos + 1
    /\ heap' = [heap EXCEPT ![current_entry].protein_sequence = Str(NextLine)]
    /\ UNCHANGED <<data, lines, skip_error, current_entry, yielded, warnings, pc,
                   entries, fasta_str, ret,
                   exception, values, converted, fasta_df, output>>

\* BodyLine appending the line as get_lines gave it, not stripped
BodyLine_Untrimmed ==
    /\ Taking
    /\ NextLine # <<>>
    /\ ~startswith(NextLine, ">")
    /\ current_entry # 0
    /\ pos' = pos + 1
    /\ heap' = [heap EXCEPT ![current_entry].protein_sequence =
                    Str(Format(@) \o lines[pos + 1])]
    /\ UNCHANGED <<data, lines, skip_error, current_entry, yielded, warnings, pc,
                   entries, fasta_str, ret,
                   exception, values, converted, fasta_df, output>>

\* lines 151, 152: a sequence line while an entry is open
BodyLine ==
    /\ Taking
    /\ NextLine # <<>>
    /\ ~startswith(NextLine, ">")
    /\ current_entry # 0
    /\ pos' = pos + 1
    /\ heap' = [heap EXCEPT ![current_entry].protein_sequence =
                    Str(Format(@) \o NextLine)]
    /\ UNCHANGED <<data, lines, skip_error, current_entry, yielded, warnings, pc,
                   entries, fasta_str, ret,
                   exception, values, converted, fasta_df, output>>

\* line 151 false: a sequence line while no entry is open
IgnoredLine ==
    /\ Taking
    /\ NextLine # <<>>
    /\ ~startswith(NextLine, ">")
    /\ current_entry = 0
    /\ pos' = pos + 1
    /\ UNCHANGED <<data, lines, skip_error, current_entry, heap, yielded, warnings, pc,
                   entries, fasta_str, ret,
                   exception, values, converted, fasta_df, output>>

\* lines 154, 155: the input is exhausted while an entry is open: yield it
EndYield ==
    /\ pc = "loop"
    /\ pos = Len(lines)
    /\ current_entry # 0
    /\ yielded' = Append(yielded, current_entry)
    /\ pc' = "yield_155"
    /\ UNCHANGED <<data, lines, skip_error, pos, current_entry, heap, warnings,
                   entries, fasta_str, ret,
                   exception, values, converted, fasta_df, output>>

\* the generator returns: after the yield of line 155, or at line 154 with
\* no entry open
Return ==
    /\ IF pc = "yield_155" THEN TRUE
       ELSE pc = "loop" /\ pos = Len(lines) /\ current_entry = 0
    /\ pc' = "done"
    /\ UNCHANGED <<data, lines, skip_error, pos, current_entry, heap, yielded, warnings,
                   entries, fasta_str, ret,
                   exception, values, converted, fasta_df, output>>

Next ==
    \/ BlankLine
    \/ HeaderYield
    \/ HeaderParse
    \/ HeaderSkip
    \/ HeaderRaise
    \/ BodyLine
    \/ IgnoredLine
    \/ EndYield
    \/ Return

----------------------------------------------------------------------------
(* Inputs *)

RECURSIVE SeqsUpTo(_, _)
SeqsUpTo(S, n) ==
    IF n = 0 THEN {<<>>}
    ELSE LET shorter == SeqsUpTo(S, n - 1)
         IN  shorter \cup {Append(q, x) : q \in {r \in shorter : Len(r) = n - 1}, x \in S}

MaxLines == 3

\* The chunks of an input: a header without tags; one with a name and a tag of
\* two words; a bare '>'; a first element of four parts, with a tag; a first
\* element of one part, after leading whitespace; an unknown tag; two
\* sequence lines, one with whitespace around it; a blank line.
LinePool ==
    { <<">", "s", "|", "A", "|", "B", "\n">>,
      <<">", "t", "|", "C", "|", "D", " ", "x", " ", "O", "S", "=", "y", " ", "z", "\n">>,
      <<">", "\n">>,
      <<">", "s", "|", "A", "|", "|", "B", " ", "G", "N", "=", "g", "\n">>,
      <<" ", ">", "E", "\n">>,
      <<">", "s", "|", "E", "|", "F", " ", "Z", "Z", "=", "1", "\n">>,
      <<"M", "G", "\n">>,
      <<" ", "A", "L", " ", "\n">>,
      <<"\n">> }

NoCall == [raised |-> FALSE, warned |-> FALSE, entry |-> None]

Init ==
    /\ data \in {Chunks(c) : c \in SeqsUpTo(LinePool, MaxLines)}
    /\ lines = get_lines(data)
    /\ skip_error \in BOOLEAN
    /\ pos = 0
    /\ current_entry = 0
    /\ heap = <<>>
    /\ yielded = <<>>
    /\ warnings = <<>>
    /\ pc = "loop"
    /\ entries = <<>>
    /\ fasta_str = <<>>
    /\ ret = NoCall
    /\ exception = "none"
    /\ values = <<>>
    /\ converted = <<>>
    /\ fasta_df = <<>>
    /\ output = <<>>

Spec == Init /\ [][Next]_vars

----------------------------------------------------------------------------
(* What the claims speak of, read off the input alone *)

IsHeader(i) == startswith(strip(lines[i]), ">")

HeaderIdx == {i \in 1..Len(lines) : IsHeader(i)}

Raises(i) == _fasta_str_to_entry(strip(lines[i])).raised

\* the headers that give an entry: all of them unless one raises
ProducingIdx == {i \in HeaderIdx : ~Raises(i)}

NthOf(S, k) == CHOOSE i \in S : Cardinality({j \in S : j <= i}) = k

\* the line of the next header after line i, or Len(lines) + 1
NextHeaderAfter(i) ==
    IF \E j \in HeaderIdx : j > i
    THEN CHOOSE j \in HeaderIdx : j > i /\ \A h \in HeaderIdx : h > i => j <= h
    ELSE Len(lines) + 1

\* the body lines of header i, trimmed and concatenated
Body(i) ==
    concat([j \in 1..(NextHeaderAfter(i) - i - 1) |-> strip(lines[i + j])])

ExpectedEntry(i) ==
    [_fasta_str_to_entry(strip(lines[i])).entry EXCEPT
        !.protein_sequence = Str(Body(i))]

\* the generator has just run lines 141 to 149 on the header at line pos
JustParsed == pos >= 1 /\ pc \in {"loop", "raised"} /\ IsHeader(pos)

\* the next header after line i, or the end of the input, has been read
ReadPast(i) ==
    IF NextHeaderAfter(i) <= Len(lines)
    THEN pos >= NextHeaderAfter(i)
    ELSE pos = Len(lines) /\ pc \in {"yield_155", "done"}

----------------------------------------------------------------------------
(* C2: when every header of the input parses, the entries yielded so far    *)
(* are those of the first headers, one per header and in header order, each *)
(* a distinct object holding all of its body lines, and each was yielded    *)
(* only once the next header or the end of the input had been read; when    *)
(* the generator has returned, every header has given its entry.            *)
C2_OneCompleteEntryPerHeader ==
    (\A i \in HeaderIdx : ~Raises(i)) =>
        /\ Len(yielded) <= Cardinality(HeaderIdx)
        /\ \A k \in 1..Len(yielded) :
              /\ heap[yielded[k]] = ExpectedEntry(NthOf(HeaderIdx, k))
              /\ ReadPast(NthOf(HeaderIdx, k))
              /\ \A m \in 1..Len(yielded) : m # k => yielded[m] # yielded[k]
        /\ pc = "done" => Len(yielded) = Cardinality(HeaderIdx)

\* an entry with body lines is yielded when the next header is read
C2_Witness ==
    /\ \A i \in HeaderIdx : ~Raises(i)
    /\ pc = "yield_140"
    /\ Len(yielded) = 1
    /\ heap[yielded[1]].protein_sequence # Str(<<>>)

----------------------------------------------------------------------------
(* C5: a bare '>' header gives no entry: without skip_error the generator   *)
(* raises ValueError on it, with skip_error it goes on with no entry open.  *)
C5_BareHeaderRejected ==
    (JustParsed /\ strip(lines[pos]) = <<">">>) =>
        /\ current_entry = 0
        /\ pc = "raised" <=> ~skip_error

----------------------------------------------------------------------------
(* Headers whose first element has the wrong number of parts *)
FirstElement(i) == _extract_fasta_header_elements(strip(lines[i]))[1]

WrongPipeCount(i) ==
    /\ IsHeader(i)
    /\ FirstElement(i) # <<>>
    /\ Len(split(FirstElement(i), "|")) # 3

\* the header at line i with a well-formed first element in place of its own
WellFormedVariant(i) ==
    <<">", "d", "|", "u", "|", "e">>
        \o SubSeq(strip(lines[i]), Len(FirstElement(i)) + 2, Len(strip(lines[i])))

RecoveredEntry(i) ==
    [_fasta_str_to_entry(WellFormedVariant(i)).entry EXCEPT
        !.db = None,
        !.unique_identifier = Str(FirstElement(i)),
        !.entry_name = None]

(* C6: a header whose first element is not empty and does not split on '|'  *)
(* into 3 parts gives, under either value of skip_error, a warning and the  *)
(* entry of the same header with a well-formed first element, except that   *)
(* db and entry_name are None and unique_identifier is the whole first      *)
(* element; the entry is yielded with all of its body lines.                *)
C6_WrongPipeCountRecovered ==
    /\ (JustParsed /\ WrongPipeCount(pos)) =>
          /\ warnings # <<>>
          /\ warnings[Len(warnings)] = FirstElement(pos)
          /\ IF _fasta_str_to_entry(WellFormedVariant(pos)).raised
             THEN current_entry = 0
             ELSE /\ pc = "loop"
                  /\ current_entry # 0
                  /\ heap[current_entry] = RecoveredEntry(pos)
    /\ \A k \in 1..Len(yielded) :
          WrongPipeCount(NthOf(ProducingIdx, k)) =>
              heap[yielded[k]] =
                  [RecoveredEntry(NthOf(ProducingIdx, k)) EXCEPT
                      !.protein_sequence = Str(Body(NthOf(ProducingIdx, k)))]

\* such an entry, with a tagged field and a body line, reaches the consumer
C6_Witness ==
    /\ Len(yielded) >= 1
    /\ WrongPipeCount(NthOf(ProducingIdx, 1))
    /\ Len(split(FirstElement(NthOf(ProducingIdx, 1)), "|")) = 4
    /\ heap[yielded[1]].gene_name # None
    /\ heap[yielded[1]].protein_sequence # Str(<<>>)

----------------------------------------------------------------------------
(* Headers that raise *)
RaisingIdx == {i \in HeaderIdx : Raises(i)}

(* C8: without skip_error, when a header raises, the generator never        *)
(* returns normally; once it has taken that header line it is either        *)
(* suspended at the yield of the entry before it or has raised; the entries *)
(* yielded are those of the headers before it, each complete and a distinct *)
(* object, all of them yielded by the time the error is raised, and nothing *)
(* of that header or a later one is yielded.                                *)
C8_ErrorAfterPrecedingEntries ==
    (~skip_error /\ RaisingIdx # {}) =>
        LET bad == NthOf(RaisingIdx, 1)
            before == {i \in HeaderIdx : i < bad}
        IN  /\ pc # "done"
            /\ pos <= bad
            /\ pos = bad => pc \in {"yield_140", "raised"}
            /\ pc = "raised" => pos = bad /\ Len(yielded) = Cardinality(before)
            /\ Len(yielded) <= Cardinality(before)
            /\ \A k \in 1..Len(yielded) :
                  /\ heap[yielded[k]] = ExpectedEntry(NthOf(before, k))
                  /\ \A m \in 1..Len(yielded) : m # k => yielded[m] # yielded[k]

\* the error is raised after an entry with a body line was yielded
C8_Witness ==
    /\ pc = "raised"
    /\ Len(yielded) >= 1
    /\ heap[yielded[Len(yielded)]].protein_sequence # Str(<<>>)

----------------------------------------------------------------------------
(* _fasta_str_to_entry called on one header line *)

MaxElements == 3

\* first elements: well formed, one part, four parts, empty
FirstElementPool ==
    { <<"s", "|", "A", "|", "B">>,
      <<"A">>,
      <<"s", "|", "A", "|", "|", "B">>,
      <<>> }

\* trailing elements: free text, the empty element two spaces give, tags of
\* the recognized set with and without a value, an unknown tag, and elements
\* with '=' at offset 1 and at offset 3
ElementPool ==
    { <<"f">>,
      <<>>,
      <<"P", "N", "=", "n">>,
      <<"O", "S", "=", "y">>,
      <<"O", "S", "=">>,
      <<"G", "N", "=", "g">>,
      <<"S", "V", "=", "1">>,
      <<"Z", "Z", "=", "1">>,
      <<"k", "=", "1">>,
      <<"O", "S", "x", "=", "y">> }

HeaderLine(elements) == <<">">> \o join(<<" ">>, elements)

InitHeader ==
    /\ fasta_str \in {HeaderLine(<<first>> \o rest) :
                         first \in FirstElementPool,
                         rest \in SeqsUpTo(ElementPool, MaxElements)}
    /\ ret = NoCall
    /\ pc = "call"
    /\ data = Chunks(<<>>)
    /\ lines = <<>>
    /\ skip_error = FALSE
    /\ pos = 0
    /\ current_entry = 0
    /\ heap = <<>>
    /\ yielded = <<>>
    /\ warnings = <<>>
    /\ entries = <<>>
    /\ exception = "none"
    /\ values = <<>>
    /\ converted = <<>>
    /\ fasta_df = <<>>
    /\ output = <<>>

CallFastaStrToEntry ==
    /\ pc = "call"
    /\ ret' = _fasta_str_to_entry(fasta_str)
    /\ pc' = "returned"
    /\ UNCHANGED <<data, lines, skip_error, pos, current_entry, heap, yielded, warnings,
                   entries, fasta_str,
                   exception, values, converted, fasta_df, output>>

SpecHeader == InitHeader /\ [][CallFastaStrToEntry]_vars

\* the elements after the first one, as the tokenizer of the spec gives them:
\* trailing whitespace stripped, the leading '>' removed, split on spaces
Elements == split(Tail(rstrip(fasta_str)), " ")

Rest == Tail(Elements)

OptionalFields ==
    {"protein_name", "organism_name", "organism_identifier", "gene_name",
     "protein_existence", "sequence_version"}

FieldOf(tag) ==
    CASE tag = PN -> "protein_name"
      [] tag = OS -> "organism_name"
      [] tag = OX -> "organism_identifier"
      [] tag = GN -> "gene_name"
      [] tag = PE -> "protein_existence"
      [] OTHER -> "sequence_version"

----------------------------------------------------------------------------
(* C3: every optional field of a parsed entry is None or a non-empty str.   *)
C3_NoEmptyOptionalField ==
    (pc = "returned" /\ ~ret.raised) =>
        \A f \in OptionalFields :
            ret.entry[f] = None \/ (ret.entry[f].k = "str" /\ ret.entry[f].s # <<>>)

----------------------------------------------------------------------------
(* The classification of elements the specification describes *)
IsTagSwitch(elem) == Len(elem) >= 3 /\ elem[3] = "="

claimed_element(current_state, elem) ==
    LET state == IF IsTagSwitch(elem) THEN SliceTo(elem, 2) ELSE current_state
    IN  [current_state |-> state,
         elem |-> IF IsTagSwitch(elem) THEN SliceFrom(elem, 3) ELSE elem,
         raised |-> state \notin FastaFields]

RECURSIVE claimed_loop(_, _, _)
claimed_loop(elems, current_state, info) ==
    IF elems = <<>> THEN [raised |-> FALSE, info |-> info]
    ELSE LET step == claimed_element(current_state, Head(elems))
         IN  IF step.raised THEN [raised |-> TRUE, info |-> info]
             ELSE claimed_loop(Tail(elems), step.current_state,
                               setdefault_append(info, step.current_state, step.elem))

(* C4: an element switches the current tag exactly when it has '=' at       *)
(* offset 2, to its first two characters, and is then collected without its *)
(* first three; every other element is collected as it is under the current *)
(* tag.  Stated of the call: _fasta_str_to_entry returns what it would      *)
(* return with its loop body classifying the elements in this way.          *)
C4_SwitchOnlyOnEqualsAtOffsetTwo ==
    pc = "returned" =>
        LET claimed == claimed_loop(Tail(_extract_fasta_header_elements(fasta_str)),
                                    PN, <<>>)
            joined == _join_list_values(claimed.info)
        IN  /\ ret.raised = claimed.raised
            /\ ~ret.raised =>
                  \A tag \in FastaFields : ret.entry[FieldOf(tag)] = get(joined, tag)

----------------------------------------------------------------------------
(* C7: the call raises ValueError exactly when a trailing element is a tag  *)
(* switch ('=' at offset 2, as in C4) to two characters outside the         *)
(* recognized set.                                                          *)
C7_RaisesExactlyOnUnknownTag ==
    pc = "returned" =>
        (ret.raised <=>
            \E i \in 1..Len(Rest) :
                IsTagSwitch(Rest[i]) /\ SliceTo(Rest[i], 2) \notin FastaFields)

----------------------------------------------------------------------------
(* Tagged groups of a header *)
TagIdx(rest) == {i \in 1..Len(rest) : IsTagSwitch(rest[i])}

WellTagged(rest) ==
    \A i \in 1..Len(rest) :
        "=" \in Range(rest[i]) =>
            IsTagSwitch(rest[i]) /\ SliceTo(rest[i], 2) \in FastaFields

\* the tag element i is collected under
TagAt(rest, tags, i) ==
    IF \E j \in tags : j <= i
    THEN SliceTo(rest[CHOOSE j \in tags : j <= i /\ \A h \in tags : h <= i => h <= j], 2)
    ELSE PN

Collected(rest, tags, tag) ==
    LET at == {i \in 1..Len(rest) : TagAt(rest, tags, i) = tag}
    IN  [k \in 1..Cardinality(at) |->
            LET i == NthOf(at, k)
            IN  IF i \in tags THEN SliceFrom(rest[i], 3) ELSE rest[i]]

\* the elements before the first tag, and the group a tag element opens
Leading(rest, tags) ==
    SubSeq(rest, 1, IF tags = {} THEN Len(rest) ELSE NthOf(tags, 1) - 1)

Group(rest, tags, i) ==
    SubSeq(rest, i,
           IF \E j \in tags : j > i
           THEN (CHOOSE j \in tags : j > i /\ \A h \in tags : h > i => j <= h) - 1
           ELSE Len(rest))

\* the orders of the tagged groups, and the elements with the groups in one
Orderings(tags) ==
    {f \in [1..Cardinality(tags) -> tags] :
        \A a, b \in 1..Cardinality(tags) : a # b => f[a] # f[b]}

Reordered(rest, tags, f) ==
    Leading(rest, tags)
        \o concat([k \in 1..Cardinality(tags) |-> Group(rest, tags, f[k])])

(* C10: for a header whose elements with '=' are all tag switches to        *)
(* recognized tags, each optional field is the single-space join of the     *)
(* elements collected under its tag, in order (those before the first tag   *)
(* under PN, a tag element without its 'XX='), and None when there are      *)
(* none; and when no tag occurs twice, the header with its tagged groups in *)
(* any other order parses to the same entry.                                *)
C10_TagOrderIndependent ==
    LET first == Elements[1]
        rest == Rest
        tags == TagIdx(rest)
    IN  (pc = "returned" /\ WellTagged(rest)) =>
            /\ ~ret.raised
            /\ \A tag \in FastaFields :
                  LET collected == Collected(rest, tags, tag)
                  IN  ret.entry[FieldOf(tag)] =
                          IF collected = <<>> THEN None
                          ELSE Str(join(<<" ">>, collected))
            /\ (\A i, j \in tags : i # j => SliceTo(rest[i], 2) # SliceTo(rest[j], 2)) =>
                  \A f \in Orderings(tags) :
                      LET reordered == Reordered(rest, tags, f)
                      IN  \* the reordered line holds the same groups: none is
                          \* lost to rstrip
                          (reordered # <<>> /\ reordered[Len(reordered)] # <<>>) =>
                              _fasta_str_to_entry(HeaderLine(<<first>> \o reordered)) = ret

\* two tagged groups, given in the order GN, OS, after free text
C10_Witness ==
    LET tags == TagIdx(Rest)
    IN  /\ pc = "returned"
        /\ WellTagged(Rest)
        /\ Leading(Rest, tags) # <<>>
        /\ Cardinality(tags) = 2
        /\ SliceTo(Rest[NthOf(tags, 1)], 2) = GN
        /\ SliceTo(Rest[NthOf(tags, 2)], 2) = OS
        /\ ret.entry.gene_name # None
        /\ ret.entry.organism_name # None

----------------------------------------------------------------------------
(* entries_to_fasta followed by fasta_to_entries on the StringIO it returns *)

MaxEntries == 2

WithSequence(entry, protein_sequence) ==
    [entry EXCEPT !.protein_sequence = Str(protein_sequence)]

\* a plain entry; one with a name of two words and an empty sequence; one
\* with '>' in its name; one whose name holds a word with '='; one with
\* numbers as they come back from the table, 0 among them; one from the
\* wrong-pipe-count recovery
EntryPool ==
    { WithSequence(FastaEntry(Str(<<"s">>), Str(<<"A">>), Str(<<"B">>),
                              None, None, None, None, None, None),
                   <<"M", "G">>),
      WithSequence(FastaEntry(Str(<<"t">>), Str(<<"C">>), Str(<<"D">>),
                              Str(<<"x", " ", "y">>), Str(<<"h">>), None, None,
                              None, Str(<<"1">>)),
                   <<>>),
      WithSequence(FastaEntry(Str(<<"s">>), Str(<<"E">>), Str(<<"F">>),
                              Str(<<"a", "-", ">", "b">>), None, None, Str(<<"g">>),
                              None, None),
                   <<"A", "L">>),
      WithSequence(FastaEntry(Str(<<"s">>), Str(<<"G">>), Str(<<"H">>),
                              Str(<<"c", " ", "k", "=", "1">>), None, None, None, None, None),
                   <<"K">>),
      WithSequence(FastaEntry(Str(<<"s">>), Str(<<"I">>), Str(<<"J">>),
                              None, None, Num(9606), None, Num(1), Num(0)),
                   <<"Q">>),
      WithSequence(FastaEntry(None, Str(<<"s", "|", "A", "|", "|", "B">>), None,
                              None, None, None, Str(<<"g">>), None, None),
                   <<"R">>) }

InitRoundTrip ==
    /\ entries \in SeqsUpTo(EntryPool, MaxEntries)
    /\ pc = "entries"
    /\ data = Chunks(<<>>)
    /\ lines = <<>>
    /\ skip_error \in BOOLEAN
    /\ pos = 0
    /\ current_entry = 0
    /\ heap = <<>>
    /\ yielded = <<>>
    /\ warnings = <<>>
    /\ fasta_str = <<>>
    /\ ret = NoCall
    /\ exception = "none"
    /\ values = <<>>
    /\ converted = <<>>
    /\ fasta_df = <<>>
    /\ output = <<>>

\* io = entries_to_fasta(entries); fasta_to_entries(io, skip_error) is called
EntriesToFasta ==
    /\ pc = "entries"
    /\ data' = entries_to_fasta(entries)
    /\ lines' = get_lines(data')
    /\ pc' = "loop"
    /\ UNCHANGED <<skip_error, pos, current_entry, heap, yielded, warnings,
                   entries, fasta_str, ret,
                   exception, values, converted, fasta_df, output>>

NextRoundTrip == EntriesToFasta \/ Next

SpecRoundTrip == InitRoundTrip /\ [][NextRoundTrip]_vars

FieldNames ==
    {"db", "unique_identifier", "entry_name", "protein_sequence"} \cup OptionalFields

----------------------------------------------------------------------------
(* Entries the round trip is stated for *)
RoundTripInput ==
    \A i \in 1..Len(entries) :
        /\ \A f \in FieldNames \ OptionalFields : entries[i][f].k = "str"
        /\ \A f \in OptionalFields : entries[i][f].k \in {"str", "none"}
        /\ \A f \in FieldNames : "=" \notin Range(entries[i][f].s)

(* C1: when every entry has str db, unique_identifier, entry_name and       *)
(* protein_sequence, optional fields that are None or a str, and no '=' in  *)
(* any field, parsing the text entries_to_fasta wrote gives the entries     *)
(* back: as many, in the same order, equal in every field.                  *)
C1_RoundTrip ==
    (pc = "done" /\ RoundTripInput) =>
        [k \in 1..Len(yielded) |-> heap[yielded[k]]] = entries

----------------------------------------------------------------------------
(* The serialization the specification describes *)
claimed_serialize(self) ==
    LET fields == optional_fields(self)
    IN  <<">">> \o Format(self.db) \o <<"|">> \o Format(self.unique_identifier)
            \o <<"|">> \o Format(self.entry_name)
            \o concat([i \in DOMAIN fields |->
                         IF fields[i].value # None
                         THEN fields[i].key \o Format(fields[i].value)
                         ELSE <<>>])
            \o <<"\n">> \o Format(self.protein_sequence) \o <<"\n">>

(* C9: the text written for the entries is, for each in turn, the header    *)
(* '>db|unique_identifier|entry_name', then ' XX=value' for each optional   *)
(* field that is not None, in the order PN, OS, OX, GN, PE, SV, then a line *)
(* break, protein_sequence and a line break.                                *)
C9_TagIffPresent ==
    pc # "entries" =>
        data.text = concat([i \in DOMAIN entries |-> claimed_serialize(entries[i])])

----------------------------------------------------------------------------
(* C11: under either value of skip_error, the k-th entry yielded is that of *)
(* the k-th header that parses, and its protein_sequence is the trimmed     *)
(* lines between that header and the next header line (parsing or not) or   *)
(* the end of the input, concatenated in order with nothing between them;   *)
(* blank lines add nothing and end nothing, and lines before the first      *)
(* header are in no entry.  While an entry is open it holds the body lines  *)
(* read so far.                                                             *)
C11_SequenceIsBodyLines ==
    LET producing == ProducingIdx
    IN  /\ Len(yielded) <= Cardinality(producing)
        /\ \A k \in 1..Len(yielded) :
              heap[yielded[k]].protein_sequence = Str(Body(NthOf(producing, k)))
        /\ (pc = "loop" /\ current_entry # 0) =>
              LET i == NthOf(producing, Len(heap))
              IN  heap[current_entry].protein_sequence =
                      Str(concat([j \in 1..(pos - i) |-> strip(lines[i + j])]))

\* a line before the first header, then a header and a line with whitespace
\* around it: the entry yielded holds the second line only, trimmed
C11_Witness ==
    /\ Len(lines) = 3
    /\ ~IsHeader(1) /\ strip(lines[1]) # <<>>
    /\ IsHeader(2)
    /\ lines[3] # strip(lines[3]) /\ strip(lines[3]) # <<>>
    /\ Len(yielded) = 1
    /\ heap[yielded[1]].protein_sequence = Str(strip(lines[3]))

----------------------------------------------------------------------------
(* list(get_lines(file_input)) on one input *)

MaxChars == 4

ContentAlphabet == {"A", ">", "\n"}

Contents == {concat(c) : c \in SeqsUpTo({<<x>> : x \in ContentAlphabet}, MaxChars)}

AcceptedForms == {"path", "TextIOWrapper", "StringIO", "str", "byte_chunks", "chunks"}

\* the input of the given form that carries the content: the file holding
\* it, open(file), StringIO(f.read()), f.read(), (line.encode() for line in
\* f), (line for line in f)
Carry(form, content) ==
    CASE form = "path" -> PathInput(content)
      [] form = "TextIOWrapper" -> TextIOWrapper(content)
      [] form = "StringIO" -> StringIO(content)
      [] form = "str" -> StrInput(content)
      [] form = "byte_chunks" ->
             ByteChunks([i \in DOMAIN readlines(content) |-> encode(readlines(content)[i])])
      [] OTHER -> Chunks(readlines(content))

InitGetLines ==
    /\ data \in {Carry(form, content) : form \in AcceptedForms, content \in Contents}
                   \cup {Bytes(encode(content)) : content \in Contents}
                   \cup {NotIterable(type) : type \in {"int", "NoneType", "PosixPath"}}
    /\ lines = <<>>
    /\ pc = "call"
    /\ skip_error = FALSE
    /\ pos = 0
    /\ current_entry = 0
    /\ heap = <<>>
    /\ yielded = <<>>
    /\ warnings = <<>>
    /\ entries = <<>>
    /\ fasta_str = <<>>
    /\ ret = NoCall
    /\ exception = "none"
    /\ values = <<>>
    /\ converted = <<>>
    /\ fasta_df = <<>>
    /\ output = <<>>

CallGetLines ==
    /\ pc = "call"
    /\ lines' = get_lines(data)
    /\ exception' = get_lines_raises(data)
    /\ pc' = IF get_lines_raises(data) = "none" THEN "returned" ELSE "raised"
    /\ UNCHANGED <<data, skip_error, pos, current_entry, heap, yielded, warnings,
                   entries, fasta_str, ret, values, converted, fasta_df, output>>

SpecGetLines == InitGetLines /\ [][CallGetLines]_vars

\* the content an input of an accepted form carries
Content(file_input) ==
    CASE file_input.form = "chunks" -> concat(file_input.chunks)
      [] file_input.form = "byte_chunks" -> decode(concat(file_input.chunks))
      [] OTHER -> file_input.text

(* C12: the lines get_lines gives for an input of an accepted form are the  *)
(* lines it gives for the same content carried in each of the accepted      *)
(* forms: path, open text stream, StringIO, str, byte chunks, text chunks.  *)
C12_SameLinesWhicheverForm ==
    (pc = "returned" /\ data.form \in AcceptedForms) =>
        \A form \in AcceptedForms : get_lines(Carry(form, Content(data))) = lines

(* C14: for an argument of a type outside the accepted set, get_lines       *)
(* raises ValueError and yields no line.                                    *)
C14_UnsupportedInputRaisesValueError ==
    (pc # "call" /\ data.form \notin AcceptedForms) =>
        /\ pc = "raised"
        /\ exception = "ValueError"
        /\ lines = <<>>

----------------------------------------------------------------------------
(* convert_to_best_datatype called on a column, then on its own result *)

MaxValues == 3

\* raw values of a column: int literals, one with a sign; literals with a
\* point; text; the empty str; None
ValuePool ==
    { Str(<<"1">>), Str(<<"-", "3">>), Str(<<"2", ".", "5">>), Str(<<"1", ".", "0">>),
      Str(<<"x">>), Str(<<>>), None }

InitDatatype ==
    /\ values \in SeqsUpTo(ValuePool, MaxValues)
    /\ converted = <<>>
    /\ pc = "call"
    /\ data = Chunks(<<>>)
    /\ lines = <<>>
    /\ skip_error = FALSE
    /\ pos = 0
    /\ current_entry = 0
    /\ heap = <<>>
    /\ yielded = <<>>
    /\ warnings = <<>>
    /\ entries = <<>>
    /\ fasta_str = <<>>
    /\ ret = NoCall
    /\ exception = "none"
    /\ fasta_df = <<>>
    /\ output = <<>>

\* converted = convert_to_best_datatype(values)
ConvertToBestDatatype ==
    /\ pc = "call"
    /\ converted' = <<convert_to_best_datatype(values)>>
    /\ pc' = "returned"
    /\ UNCHANGED <<data, lines, skip_error, pos, current_entry, heap, yielded, warnings,
                   entries, fasta_str, ret, exception, values, fasta_df, output>>

\* convert_to_best_datatype(converted)
ConvertAgain ==
    /\ pc = "returned"
    /\ Len(converted) = 1
    /\ converted' = Append(converted, convert_to_best_datatype(converted[1]))
    /\ UNCHANGED <<data, lines, skip_error, pos, current_entry, heap, yielded, warnings,
                   pc, entries, fasta_str, ret, exception, values, fasta_df, output>>

NextDatatype == ConvertToBestDatatype \/ ConvertAgain

SpecDatatype == InitDatatype /\ [][NextDatatype]_vars

(* C13: converting a converted column changes nothing: the second result    *)
(* has the values and the types (int, float or str) of the first.           *)
C13_ConvertIdempotent ==
    Len(converted) = 2 => converted[2] = converted[1]

----------------------------------------------------------------------------
(* C15: with skip_error the generator never raises.  Once it has run the    *)
(* try of lines 141 to 149 on a header that raises, no entry is open and    *)
(* the entries of all parsing headers before it have been yielded.  The     *)
(* entries yielded are those of the parsing headers, in order, each a       *)
(* distinct object with the lines up to the next header line as its body    *)
(* and no other line: the lines after a dropped header are in no entry.     *)
(* When the generator has returned, every parsing header has given one.     *)
C15_SkipDropsBadRecord ==
    skip_error =>
        LET producing == ProducingIdx
        IN  /\ pc # "raised"
            /\ (JustParsed /\ pos \notin producing) =>
                  /\ current_entry = 0
                  /\ Len(yielded) = Cardinality({i \in producing : i < pos})
            /\ Len(yielded) <= Cardinality(producing)
            /\ \A k \in 1..Len(yielded) :
                  /\ heap[yielded[k]] = ExpectedEntry(NthOf(producing, k))
                  /\ \A m \in 1..Len(yielded) : m # k => yielded[m] # yielded[k]
            /\ pc = "done" => Len(yielded) = Cardinality(producing)

\* a header that raises is dropped after a parsing one, and the line after
\* it is in no entry: the one entry yielded has an empty sequence
C15_Witness ==
    /\ skip_error
    /\ pc = "done"
    /\ Len(lines) = 3
    /\ IsHeader(1) /\ ~Raises(1)
    /\ IsHeader(2) /\ Raises(2)
    /\ ~IsHeader(3) /\ strip(lines[3]) # <<>>
    /\ Len(yielded) = 1
    /\ heap[yielded[1]].protein_sequence = Str(<<>>)

----------------------------------------------------------------------------
(* C16: no step of the generator changes an object it has yielded; and      *)
(* whenever the generator is in its loop, about to take a line, the entry   *)
(* it holds, if any, is not one it has yielded: the reference is cleared    *)
(* (line 141) before the next line is read, so a body line is appended only *)
(* to an entry the consumer has not received.                               *)
C16_YieldedEntryNeverChanged ==
    /\ [](pc = "loop" => \A k \in 1..Len(yielded) : yielded[k] # current_entry)
    /\ [][\A k \in 1..Len(yielded) : heap'[yielded[k]] = heap[yielded[k]]]_vars

\* after an entry was yielded, a body line has been appended to the next one
C16_Witness ==
    /\ Len(yielded) >= 1
    /\ pc = "loop"
    /\ current_entry # 0
    /\ heap[current_entry].protein_sequence # Str(<<>>)

----------------------------------------------------------------------------
(* _extract_fasta_header_elements called on one header line *)

MaxHeaderChars == 4

HeaderAlphabet == {"a", " ", "|", ">"}

\* what may follow the header on its line
TrailingPool == {<<>>, <<"\n">>, <<" ", "\n">>}

InitTokenizer ==
    /\ fasta_str \in {<<">">> \o concat(c) \o trailing :
                         c \in SeqsUpTo({<<x>> : x \in HeaderAlphabet}, MaxHeaderChars),
                         trailing \in TrailingPool}
    /\ ret = <<>>
    /\ pc = "call"
    /\ data = Chunks(<<>>)
    /\ lines = <<>>
    /\ skip_error = FALSE
    /\ pos = 0
    /\ current_entry = 0
    /\ heap = <<>>
    /\ yielded = <<>>
    /\ warnings = <<>>
    /\ entries = <<>>
    /\ exception = "none"
    /\ values = <<>>
    /\ converted = <<>>
    /\ fasta_df = <<>>
    /\ output = <<>>

CallExtractElements ==
    /\ pc = "call"
    /\ ret' = _extract_fasta_header_elements(fasta_str)
    /\ pc' = "returned"
    /\ UNCHANGED <<data, lines, skip_error, pos, current_entry, heap, yielded, warnings,
                   entries, fasta_str, exception, values, converted, fasta_df, output>>

SpecTokenizer == InitTokenizer /\ [][CallExtractElements]_vars

(* C17: the elements of a header line, joined with single spaces, are the   *)
(* line without its trailing whitespace and without its first character,    *)
(* the '>' marker: every other character is kept, a later '>' included.     *)
C17_OnlyLeadingMarkerRemoved ==
    pc = "returned" => join(<<" ">>, ret) = Tail(rstrip(fasta_str))

----------------------------------------------------------------------------
(* fasta_df = to_df(data, skip_error), then to_fasta(fasta_df) *)

\* Headers without optional fields, with all of them, with values that look
\* numeric, and one that raises; a sequence line and a blank line.  db is
\* never numeric, so a row always holds a str and iterrows keeps the types.
TabularLinePool ==
    { <<">", "s", "|", "A", "|", "B", "\n">>,
      <<">", "s", "|", "C", "|", "D", " ", "n", " ", "O", "S", "=", "o", " ",
        "O", "X", "=", "7", " ", "G", "N", "=", "g", " ", "P", "E", "=", "1", " ",
        "S", "V", "=", "1", "\n">>,
      <<">", "s", "|", "E", "|", "F", " ", "n", " ", "O", "S", "=", "o", " ",
        "O", "X", "=", "2", ".", "5", " ", "G", "N", "=", "g", " ", "P", "E", "=", "1", " ",
        "S", "V", "=", "0", "1", "\n">>,
      <<">", "s", "|", "G", "|", "H", " ", "Z", "Z", "=", "1", "\n">>,
      <<"M", "G", "\n">>,
      <<"\n">> }

InitTabular ==
    /\ data \in {Chunks(c) : c \in SeqsUpTo(TabularLinePool, MaxLines)}
    /\ lines = get_lines(data)
    /\ skip_error \in BOOLEAN
    /\ pos = 0
    /\ current_entry = 0
    /\ heap = <<>>
    /\ yielded = <<>>
    /\ warnings = <<>>
    /\ pc = "loop"
    /\ entries = <<>>
    /\ fasta_str = <<>>
    /\ ret = NoCall
    /\ exception = "none"
    /\ values = <<>>
    /\ converted = <<>>
    /\ fasta_df = <<>>
    /\ output = StringIO(<<>>)

\* the entries the generator has yielded
YieldedEntries == [k \in 1..Len(yielded) |-> heap[yielded[k]]]

\* entries_to_df has consumed the generator: to_df returns the table
EntriesToDf ==
    /\ pc = "done"
    /\ fasta_df' = entries_to_df(YieldedEntries)
    /\ pc' = "to_df_returned"
    /\ UNCHANGED <<data, lines, skip_error, pos, current_entry, heap, yielded, warnings,
                   entries, fasta_str, ret, exception, values, converted, output>>

\* to_fasta(fasta_df)
ToFasta ==
    /\ pc = "to_df_returned"
    /\ output' = to_fasta(fasta_df).fasta_string
    /\ exception' = to_fasta(fasta_df).raised
    /\ pc' = IF to_fasta(fasta_df).raised = "none"
             THEN "to_fasta_returned" ELSE "to_fasta_raised"
    /\ UNCHANGED <<data, lines, skip_error, pos, current_entry, heap, yielded, warnings,
                   entries, fasta_str, ret, values, converted, fasta_df>>

NextTabular == Next \/ EntriesToDf \/ ToFasta

SpecTabular == InitTabular /\ [][NextTabular]_vars

(* C18: for an input on which fasta_to_entries does not raise, to_fasta of  *)
(* the table to_df made returns, and the text it returns is the text        *)
(* entries_to_fasta writes for the entries fasta_to_entries yielded.        *)
C18_TabularPathSameText ==
    pc \in {"to_fasta_returned", "to_fasta_raised"} =>
        /\ pc = "to_fasta_returned"
        /\ output = entries_to_fasta(YieldedEntries)

====
